---- MODULE Spec2Model ----
(***************************************************************************)
(* Market-data refresh cache and watchlist store of the banking demo       *)
(* (server/market-service.ts, the market routes of server/routes.ts and    *)
(* the market_data / watched_assets tables of the shared schema).          *)
(*                                                                         *)
(* Every service call is an async function: it runs atomically between two *)
(* awaits, so each action below is the code between two awaits of one      *)
(* call.  Calls of different requests interleave at their awaits.          *)
(* Time is one clock in milliseconds, read by `new Date()` and by the      *)
(* database's now(); a database statement is applied at one instant.       *)
(* Reads of the tables succeed; the upsert of market_data may fail          *)
(* (persistence error).                                                    *)
(***************************************************************************)
EXTENDS Integers, Sequences, FiniteSets, TLC

(* ------------------------------ bounds -------------------------------- *)

\* symbols kept of each exchange's catalog list (the first MaxCatalog)
MaxCatalog == 2
\* rows of a watched_assets table that is listed
MaxRows == 3

(* ------------------------- program constants -------------------------- *)

\* 5 * 60 * 1000: the staleness threshold of initializeExchangeData
STALE_MS == 300000
\* setTimeout(resolve, 1100): the delay after a refresh inside a batch
DELAY_MS == 1100

\* "no timestamp": no row was read / nothing was written
NoTime == -1

\* EXCHANGE_STOCKS: exchange code -> ordered list of catalog entries
EXCHANGE_STOCKS ==
  [ OL |-> << [symbol |-> "EQNR.OL", name |-> "Equinor ASA", sector |-> "Energy"],
              [symbol |-> "DNB.OL", name |-> "DNB Bank ASA", sector |-> "Financial Services"],
              [symbol |-> "TEL.OL", name |-> "Telenor ASA", sector |-> "Telecommunications"],
              [symbol |-> "MOWI.OL", name |-> "Mowi ASA", sector |-> "Food & Beverages"],
              [symbol |-> "NHY.OL", name |-> "Norsk Hydro ASA", sector |-> "Basic Materials"],
              [symbol |-> "YAR.OL", name |-> "Yara International ASA", sector |-> "Basic Materials"],
              [symbol |-> "ORKLA.OL", name |-> "Orkla ASA", sector |-> "Consumer Goods"],
              [symbol |-> "STL.OL", name |-> "Statoil ASA", sector |-> "Energy"] >>,
    US |-> << [symbol |-> "AAPL", name |-> "Apple Inc.", sector |-> "Technology"],
              [symbol |-> "MSFT", name |-> "Microsoft Corporation", sector |-> "Technology"],
              [symbol |-> "GOOGL", name |-> "Alphabet Inc.", sector |-> "Technology"],
              [symbol |-> "AMZN", name |-> "Amazon.com Inc.", sector |-> "Consumer Discretionary"],
              [symbol |-> "TSLA", name |-> "Tesla Inc.", sector |-> "Consumer Discretionary"],
              [symbol |-> "META", name |-> "Meta Platforms Inc.", sector |-> "Technology"],
              [symbol |-> "JPM", name |-> "JPMorgan Chase & Co.", sector |-> "Financial Services"],
              [symbol |-> "JNJ", name |-> "Johnson & Johnson", sector |-> "Healthcare"] >> ]

\* the exchange's catalog list, cut to the model's bound
Catalog(e) ==
  LET full == EXCHANGE_STOCKS[e]
  IN  SubSeq(full, 1, IF Len(full) < MaxCatalog THEN Len(full) ELSE MaxCatalog)

\* NORWEGIAN_STOCKS = EXCHANGE_STOCKS["OL"]
NORWEGIAN_STOCKS == Catalog("OL")

(* ------------------------------ inputs -------------------------------- *)

\* exchange codes a client asks for ("XX" is in no catalog)
ExchangeInputs == {"OL", "XX"}
\* symbols a client asks a quote for or watches
SymbolInputs == {"EQNR.OL", "AAPL"}
\* symbols a client asks the quote route for: one of the catalog, one that
\* no catalog lists, and one that has ".OL" inside but not as its suffix
QuoteSymbols == {"EQNR.OL", "NVDA", "X.OLD"}
\* authenticated user ids (req.user.claims?.sub || req.user.id)
UserInputs == {"u1", "u2"}
\* current prices the provider may answer with (quote.c)
Prices == {100, 101}

\* what the profile request of updateMarketData may come to: "null" when it
\* failed (.catch(() => null)), "ok" a profile with every field the code reads
ProfileInputs == {"ok", "null"}

\* the instants the clock can stand at: start-up and one delay later, and
\* the same instants one staleness window later, exactly and one ms past it
Instants ==
  LET base == {0, DELAY_MS}
  IN  base \cup {STALE_MS + b + e : b \in base, e \in {0, 1}}
\* the instants of the first delay only
EarlyInstants == {0, DELAY_MS}

\* KID numbers of the request body ("": the KID number is missing)
KidInputs == {"", "2345676"}
\* amounts of the request body, NOK (0: the amount is missing)
AmountInputs == {0, 10, 25}
\* the companies table: empty, or the one company, which owns one account
CompanyTables == {<< >>, <<"c1">>}
\* the balance of the account before any payment, NOK
InitialBalance == 100
\* the payment request slots; each takes one request
PaySlots == {"p1", "p2"}

\* values of the state parameter of a BankID callback: the values
\* crypto.randomUUID() issues, and "" for a missing parameter
IssuedStates == {"t1", "t2"}
StateInputs == IssuedStates \cup {""}
\* browser sessions (session cookies)
SessionIds == {"s1", "s2"}
\* ids of the companies table: "c1" is the seeded company, the others are
\* the ids gen_random_uuid() gives to companies created later
CompanyIds == {"c1", "c2", "c3"}
\* subjects of OIDC sessions: "a1" is an administrator, "u1" a plain user,
\* "u3" has no row in users
OidcSubs == {"a1", "u1", "u3"}
\* the personnummer a BankID callback is asked to log in ("": the parameter
\* is missing, which is no demo user)
PersonnummerInputs == {"12345678901", "98765432109", ""}
\* usernames of the developer login ("": missing)
UsernameInputs == {"alice", ""}
\* user ids of the account routes: the id of a company, a UUID that is no
\* company's id, and an id that is no UUID
AccountUserInputs == {"c1", "9f1c", "dev-alice"}
\* ids gen_random_uuid() gives to new accounts
AccountIds == {"acc2", "acc3"}
\* KYC statuses an administrator sets
KycStatusInputs == {"verified", "rejected"}

\* the call slots: the start-up batch, and the request slots; a slot whose
\* request was answered takes the next request
StartupProc == "startup"
Slots == {"r1", "r2"}
Procs == {StartupProc} \cup Slots

VARIABLES
  now,         \* the clock, ms
  market,      \* rows of market_data, in insertion order
  watched,     \* rows of watched_assets, in insertion order
  calls,       \* per call slot: the state of the async call running in it
  refreshedAt, \* history: per symbol, when an initializeExchangeData call last
               \* wrote its row (NoTime: never)
  balance,     \* accounts.balance of the paying company's first account, NOK
  transactions,\* rows of transactions, in insertion order
  companies,   \* ids of the rows of companies, in insertion order
  pays,        \* per payment slot: the state of its POST /api/payments/invoice
  accounts,    \* rows of accounts, in insertion order
  users,       \* the users table: per user id its role ("": no row)
  kyc,         \* per company id: name, kycStatus and kycData.verifiedBy of its
               \* row, and (history) the user a call created the row for
  sessions,    \* per browser session: what the session store holds for it
  resp         \* the last answered request of the auth and account routes

bankVars == <<balance, transactions, companies, pays, accounts>>
authVars == <<users, kyc, sessions, resp>>
marketVars == <<now, market, watched, calls, refreshedAt>>
vars == <<now, market, watched, calls, refreshedAt, balance, transactions, companies, pays,
          accounts, users, kyc, sessions, resp>>

(* ------------------------------ schema -------------------------------- *)

\* unique constraints of market_data besides the id primary key:
\* symbol varchar(20) .notNull().unique()
MARKET_UNIQUE == { <<"symbol">> }

\* unique constraints of watched_assets besides the id primary key: the
\* table declares none (user_id and symbol are plain columns)
WATCHED_UNIQUE == { }

\* PostgreSQL accepts INSERT ... ON CONFLICT (cols) only when a unique index
\* on exactly these columns exists; otherwise the statement is rejected
\* (42P10, no unique or exclusion constraint matching the ON CONFLICT
\* specification) whatever the table holds
HasArbiter(uniques, target) == target \in uniques

(* ------------------------- market_data table -------------------------- *)

\* the text of a symbol, character by character
SymbolChars(s) ==
  CASE s = "EQNR.OL" -> <<"E", "Q", "N", "R", ".", "O", "L">>
    [] s = "DNB.OL" -> <<"D", "N", "B", ".", "O", "L">>
    [] s = "TEL.OL" -> <<"T", "E", "L", ".", "O", "L">>
    [] s = "MOWI.OL" -> <<"M", "O", "W", "I", ".", "O", "L">>
    [] s = "NHY.OL" -> <<"N", "H", "Y", ".", "O", "L">>
    [] s = "YAR.OL" -> <<"Y", "A", "R", ".", "O", "L">>
    [] s = "ORKLA.OL" -> <<"O", "R", "K", "L", "A", ".", "O", "L">>
    [] s = "STL.OL" -> <<"S", "T", "L", ".", "O", "L">>
    [] s = "AAPL" -> <<"A", "A", "P", "L">>
    [] s = "MSFT" -> <<"M", "S", "F", "T">>
    [] s = "GOOGL" -> <<"G", "O", "O", "G", "L">>
    [] s = "AMZN" -> <<"A", "M", "Z", "N">>
    [] s = "TSLA" -> <<"T", "S", "L", "A">>
    [] s = "META" -> <<"M", "E", "T", "A">>
    [] s = "JPM" -> <<"J", "P", "M">>
    [] s = "JNJ" -> <<"J", "N", "J">>
    [] s = "NVDA" -> <<"N", "V", "D", "A">>
    [] s = "X.OLD" -> <<"X", ".", "O", "L", "D">>

\* String.prototype.includes: `sub` occurs somewhere in `chars`
Includes(chars, sub) ==
  \E i \in 1..(Len(chars) - Len(sub) + 1) : SubSeq(chars, i, i + Len(sub) - 1) = sub

\* the mutant of StockInfo: the catalog lookup finds nothing
StockInfoNone(symbol) == [found |-> FALSE, name |-> "", sector |-> ""]

\* Object.values(EXCHANGE_STOCKS).flat().find(stock => stock.symbol === symbol)
StockInfo(symbol) ==
  LET flat == EXCHANGE_STOCKS.OL \o EXCHANGE_STOCKS.US
      hits == {i \in 1..Len(flat) : flat[i].symbol = symbol}
  IN  IF hits = {} THEN [found |-> FALSE, name |-> "", sector |-> ""]
      ELSE LET i == CHOOSE i \in hits : \A j \in hits : i <= j
           IN  [found |-> TRUE, name |-> flat[i].name, sector |-> flat[i].sector]

\* the company profile the provider answered with ("" stands for a field
\* that is undefined, << >> for the undefined exchange text and 0 for the
\* undefined market capitalization, in millions: null has none of them)
Profile(answer) ==
  IF answer = "ok"
  THEN [name |-> "Finnhub name", currency |-> "EUR", finnhubIndustry |-> "Finnhub industry",
        exchange |-> <<"X", "E", "T", "R">>, marketCapitalization |-> 5]
  ELSE [name |-> "", currency |-> "", finnhubIndustry |-> "",
        exchange |-> << >>, marketCapitalization |-> 0]

\* the quote the provider answered with when the current price is c: six
\* values the code only copies, told apart here by their thousands
Quote(c) ==
  [c |-> c, d |-> 1000 + c, dp |-> 2000 + c, pc |-> 3000 + c, h |-> 4000 + c,
   l |-> 5000 + c]

\* a || b || c on strings: the first that is not empty
FirstOf(a, b, c) == IF a # "" THEN a ELSE IF b # "" THEN b ELSE c

\* symbol.split('.')[1]: the text between the first dot and the next one
\* (<< >> when the symbol has no dot: undefined, falsy like the empty text)
SecondPart(chars) ==
  LET dots == {i \in 1..Len(chars) : chars[i] = "."}
  IN  IF dots = {} THEN << >>
      ELSE LET first == CHOOSE i \in dots : \A j \in dots : i <= j
               later == {i \in dots : i > first}
               last == IF later = {} THEN Len(chars) + 1
                       ELSE CHOOSE i \in later : \A j \in later : i <= j
           IN  SubSeq(chars, first + 1, last - 1)

\* generateSparklineData(quote.c, quote.d): seven points on the line from
\* c - d to c, each moved by a random variation; a row carries the two ends
\* of the line, which the quote decides
SparklineData(quote) == <<quote.c - quote.d, quote.c>>

\* the values of the insert of updateMarketData (marketCap 0: null)
MarketValues(symbol, price, answer, t) ==
  LET quote == Quote(price)
      profile == Profile(answer)
      stockInfo == StockInfo(symbol)
  IN  [symbol |-> symbol,
       name |-> FirstOf(profile.name, stockInfo.name, symbol),
       exchange |-> IF profile.exchange # << >> THEN profile.exchange
                    ELSE IF SecondPart(SymbolChars(symbol)) # << >>
                         THEN SecondPart(SymbolChars(symbol))
                         ELSE <<"U", "S">>,
       price |-> quote.c, change |-> quote.d, changePercent |-> quote.dp,
       volume |-> "N/A",
       marketCap |-> IF profile.marketCapitalization # 0
                     THEN profile.marketCapitalization * 1000000 ELSE 0,
       previousClose |-> quote.pc, dayHigh |-> quote.h, dayLow |-> quote.l,
       currency |-> FirstOf(profile.currency,
                            IF Includes(SymbolChars(symbol), <<".", "O", "L">>)
                            THEN "NOK" ELSE "USD", ""),
       sector |-> FirstOf(stockInfo.sector, profile.finnhubIndustry, "Unknown"),
       sparklineData |-> SparklineData(quote),
       lastUpdated |-> t]

\* the mutant of MarketSet: the set clause writes the price and lastUpdated only
MarketSetPartial(row, price, t) ==
  [row EXCEPT !.price = Quote(price).c, !.lastUpdated = t]

\* the set clause of the upsert: the quote's values and lastUpdated
MarketSet(row, price, t) ==
  LET quote == Quote(price)
  IN  [row EXCEPT !.price = quote.c, !.change = quote.d, !.changePercent = quote.dp,
                  !.previousClose = quote.pc, !.dayHigh = quote.h,
                  !.dayLow = quote.l, !.sparklineData = SparklineData(quote),
                  !.lastUpdated = t]

RowsOf(rows, symbol) == SelectSeq(rows, LAMBDA r : r.symbol = symbol)

\* db.select().from(marketData).where(eq(symbol)).limit(1): existingData[0]
ExistingData(rows, symbol) ==
  LET found == RowsOf(rows, symbol)
  IN  IF Len(found) = 0 THEN [found |-> FALSE, lastUpdated |-> NoTime]
      ELSE [found |-> TRUE, lastUpdated |-> found[1].lastUpdated]

\* the mutant of UpsertMarketData: a plain insert, no conflict handling
InsertMarketDataAlways(rows, symbol, price, profile, t) ==
  Append(rows, MarketValues(symbol, price, profile, t))

\* the mutant of UpsertMarketData: a conflicting row takes every value of the
\* insert, the profile's too
UpsertMarketDataReplace(rows, symbol, price, profile, t) ==
  IF \E i \in 1..Len(rows) : rows[i].symbol = symbol
  THEN [i \in 1..Len(rows) |->
          IF rows[i].symbol = symbol
          THEN MarketValues(symbol, price, profile, t)
          ELSE rows[i]]
  ELSE Append(rows, MarketValues(symbol, price, profile, t))

\* db.insert(marketData).values(..).onConflictDoUpdate({target: symbol, set}):
\* a new row takes every value (lastUpdated by defaultNow()); a conflicting
\* row keeps its insert-only columns and takes the quote and lastUpdated
UpsertMarketData(rows, symbol, price, profile, t) ==
  IF \E i \in 1..Len(rows) : rows[i].symbol = symbol
  THEN [i \in 1..Len(rows) |->
          IF rows[i].symbol = symbol
          THEN MarketSet(rows[i], price, t)
          ELSE rows[i]]
  ELSE Append(rows, MarketValues(symbol, price, profile, t))

\* every order of the rows of a sequence
Permuted(rows) ==
  LET n == Len(rows)
  IN  {[i \in 1..n |-> rows[f[i]]] :
         f \in {g \in [1..n -> 1..n] : \A i, j \in 1..n : i # j => g[i] # g[j]}}

\* the mutant of MarketDataFromDB: the list of symbols is ignored
MarketDataFromDBUnfiltered(rows, symbols) ==
  {res \in Permuted(rows) :
     \A i, j \in 1..Len(res) : i < j => res[i].lastUpdated >= res[j].lastUpdated}

\* what getMarketDataFromDB(symbols) may return.  With a non-empty list: the
\* rows whose symbol is in the list, and no ORDER BY, so in whatever order
\* the database produces them.  Without one (or with an empty list): every
\* row, ORDER BY last_updated DESC, rows of one instant in any order
MarketDataFromDB(rows, symbols) ==
  IF symbols # {}
  THEN Permuted(SelectSeq(rows, LAMBDA r : r.symbol \in symbols))
  ELSE {res \in Permuted(rows) :
          \A i, j \in 1..Len(res) : i < j => res[i].lastUpdated >= res[j].lastUpdated}

(* ------------------------ watched_assets table ------------------------ *)

WatchRowsOf(rows, userId, symbol) ==
  SelectSeq(rows, LAMBDA r : r.userId = userId /\ r.symbol = symbol)

\* a mutant of InsertWatchedAsset: the conflict is on the symbol alone, over a
\* unique index on it, so another user's row of the symbol is the one updated
InsertWatchedAssetBySymbol(rows, userId, symbol, isFavorite, t) ==
  IF \E i \in 1..Len(rows) : rows[i].symbol = symbol
  THEN [ok |-> TRUE,
        rows |-> [i \in 1..Len(rows) |->
                    IF rows[i].symbol = symbol
                    THEN [rows[i] EXCEPT !.isFavorite = isFavorite, !.updatedAt = t]
                    ELSE rows[i]]]
  ELSE [ok |-> TRUE,
        rows |-> Append(rows, [userId |-> userId, symbol |-> symbol,
                               isFavorite |-> isFavorite, createdAt |-> t,
                               updatedAt |-> t])]

\* the mutant of InsertWatchedAsset: .onConflictDoNothing() without a target,
\* which on a table without a unique constraint inserts every time
InsertWatchedAssetDoNothing(rows, userId, symbol, isFavorite, t) ==
  [ok |-> TRUE,
   rows |-> Append(rows, [userId |-> userId, symbol |-> symbol,
                          isFavorite |-> isFavorite, createdAt |-> t, updatedAt |-> t])]

\* db.insert(watchedAssets).values(..).onConflictDoUpdate({target: [userId,
\* symbol], set: {isFavorite, updatedAt}}): rejected when no unique index
\* matches the target; else a new row, or the conflicting row updated
InsertWatchedAsset(rows, userId, symbol, isFavorite, t) ==
  IF ~HasArbiter(WATCHED_UNIQUE, <<"user_id", "symbol">>)
  THEN [ok |-> FALSE, rows |-> rows]
  ELSE IF \E i \in 1..Len(rows) : rows[i].userId = userId /\ rows[i].symbol = symbol
  THEN [ok |-> TRUE,
        rows |-> [i \in 1..Len(rows) |->
                    IF rows[i].userId = userId /\ rows[i].symbol = symbol
                    THEN [rows[i] EXCEPT !.isFavorite = isFavorite, !.updatedAt = t]
                    ELSE rows[i]]]
  ELSE [ok |-> TRUE,
        rows |-> Append(rows, [userId |-> userId, symbol |-> symbol,
                               isFavorite |-> isFavorite, createdAt |-> t,
                               updatedAt |-> t])]

\* db.update(watchedAssets).set({isFavorite, updatedAt}).where(userId, symbol)
UpdateFavorite(rows, userId, symbol, isFavorite, t) ==
  [i \in 1..Len(rows) |->
     IF rows[i].userId = userId /\ rows[i].symbol = symbol
     THEN [rows[i] EXCEPT !.isFavorite = isFavorite, !.updatedAt = t]
     ELSE rows[i]]

\* db.delete(watchedAssets).where(userId, symbol)
DeleteWatched(rows, userId, symbol) ==
  SelectSeq(rows, LAMBDA r : ~(r.userId = userId /\ r.symbol = symbol))

\* the rows of a sequence in ORDER BY is_favorite DESC, created_at: favorites
\* first, each group by creation time (rows equal in both keep table order)
RECURSIVE OrderWatched(_)
OrderWatched(rows) ==
  IF Len(rows) <= 1 THEN rows
  ELSE LET Before(a, b) == \/ a.isFavorite /\ ~b.isFavorite
                           \/ a.isFavorite = b.isFavorite /\ a.createdAt < b.createdAt
           first == CHOOSE i \in 1..Len(rows) :
                      \A j \in 1..Len(rows) :
                        j # i => \/ Before(rows[i], rows[j])
                                 \/ ~Before(rows[j], rows[i]) /\ i < j
           rest == [k \in 1..(Len(rows) - 1) |->
                      IF k < first THEN rows[k] ELSE rows[k + 1]]
       IN  <<rows[first]>> \o OrderWatched(rest)

\* getUserWatchedAssets(userId): watched_assets LEFT JOIN market_data on the
\* symbol, the user's rows only: one entry per matching market row, and one
\* with marketData null (found FALSE) when there is none
RECURSIVE JoinMarket(_, _)
JoinMarket(wrows, mrows) ==
  IF Len(wrows) = 0 THEN << >>
  ELSE LET w == Head(wrows)
           ms == RowsOf(mrows, w.symbol)
           joined == IF Len(ms) = 0
                     THEN << [watchedAsset |-> w, found |-> FALSE, price |-> 0] >>
                     ELSE [i \in 1..Len(ms) |->
                             [watchedAsset |-> w, found |-> TRUE, price |-> ms[i].price]]
       IN  joined \o JoinMarket(Tail(wrows), mrows)

UserWatchedAssets(wrows, mrows, userId) ==
  JoinMarket(OrderWatched(SelectSeq(wrows, LAMBDA r : r.userId = userId)), mrows)

\* the mutant of SortsBefore: favorites last
SortsBeforeAsc(a, b) ==
  \/ ~a.isFavorite /\ b.isFavorite
  \/ a.isFavorite = b.isFavorite /\ a.createdAt < b.createdAt

\* ORDER BY is_favorite DESC, created_at: row a has to come before row b
SortsBefore(a, b) ==
  \/ a.isFavorite /\ ~b.isFavorite
  \/ a.isFavorite = b.isFavorite /\ a.createdAt < b.createdAt

\* every order the database may return the rows in: rows equal in both sort
\* keys come in any order
Orderings(rows) ==
  LET n == Len(rows)
      perms == {f \in [1..n -> 1..n] : \A i, j \in 1..n : i # j => f[i] # f[j]}
  IN  {[i \in 1..n |-> rows[f[i]]] : f \in
         {g \in perms : \A i, j \in 1..n :
                          i < j => ~SortsBefore(rows[g[j]], rows[g[i]])}}

\* what getUserWatchedAssets(userId) may return
UserWatchedListings(wrows, mrows, userId) ==
  {JoinMarket(ord, mrows) :
     ord \in Orderings(SelectSeq(wrows, LAMBDA r : r.userId = userId))}

(* ------------------------------- calls -------------------------------- *)

FreeCall ==
  [kind |-> "free", pc |-> "idle", exchange |-> "", symbol |-> "", userId |-> "",
   isFavorite |-> FALSE, idx |-> 0, wakeAt |-> NoTime, attemptAt |-> NoTime,
   price |-> 0, profile |-> "none", batch |-> "none", status |-> 0,
   visited |-> << >>, called |-> {}, freshAtStart |-> {}, result |-> << >>]

IsBatch(c) == c.kind \in {"startup", "exchange"}

\* the list a batch walks: NORWEGIAN_STOCKS at start-up, the exchange's else
StocksOf(c) == IF c.kind = "startup" THEN NORWEGIAN_STOCKS ELSE Catalog(c.exchange)

\* the symbol the call's running updateMarketData is for
CurSym(c) == IF IsBatch(c) THEN StocksOf(c)[c.idx].symbol ELSE c.symbol

\* every symbol a row can be written for
AllSymbols ==
  SymbolInputs \cup QuoteSymbols \cup {Catalog(e)[i].symbol : e \in DOMAIN EXCHANGE_STOCKS, i \in 1..MaxCatalog}

\* the provider requests of the call that are in flight: updateMarketData
\* starts getQuote and getCompanyProfile together and awaits both
InFlight(c) == IF c.pc = "fetch" THEN {"quote", "profile2"} ELSE {}

\* a mutant of shouldUpdate: only a missing row is fetched
shouldUpdateMissing(existing, t) == ~existing.found

\* a mutant of shouldUpdate: a row exactly 5 minutes old counts as stale
shouldUpdateInclusive(existing, t) ==
  ~existing.found \/ (t - existing.lastUpdated) >= STALE_MS

\* !existingData[0] || (new Date().getTime() - lastUpdated.getTime()) > 5*60*1000
shouldUpdate(existing, t) ==
  ~existing.found \/ (t - existing.lastUpdated) > STALE_MS

\* a batch after updateMarketData resolved: await setTimeout(1100), inside the try
BatchAfterOk(c, t) ==
  [c EXCEPT !.pc = "sleep", !.wakeAt = t + DELAY_MS]

\* the mutant of BatchAfterFail: the error leaves the loop and the batch rejects
BatchAfterFailPropagates(c, t) ==
  [c EXCEPT !.pc = "done", !.batch = "rejected", !.status = 500]

\* a batch after updateMarketData rejected: the catch logs and the loop goes
\* on with the next stock at once (the setTimeout is skipped with the throw)
BatchAfterFail(c, t) ==
  [c EXCEPT !.pc = "loop", !.idx = c.idx + 1]

\* what follows a resolved updateMarketData in its caller
AfterRefreshOk(c, t) ==
  CASE IsBatch(c) -> BatchAfterOk(c, t)
    [] c.kind = "quote" -> [c EXCEPT !.pc = "respond"]
    [] OTHER -> [c EXCEPT !.pc = "insert"]

\* the mutant of AfterRefreshFail: updateMarketData swallows its error
AfterRefreshFailSwallowed(c, t) == AfterRefreshOk(c, t)

\* the mutant of AfterRefreshFail: the quote route goes on to read the cache
\* after a rejected updateMarketData
AfterRefreshFailReads(c, t) ==
  CASE IsBatch(c) -> BatchAfterFail(c, t)
    [] c.kind = "quote" -> [c EXCEPT !.pc = "respond"]
    [] OTHER -> [c EXCEPT !.pc = "insert"]

\* what follows a rejected updateMarketData in its caller: a batch goes on,
\* the quote route answers 500, addWatchedAsset warns and inserts anyway
AfterRefreshFail(c, t) ==
  CASE IsBatch(c) -> BatchAfterFail(c, t)
    [] c.kind = "quote" -> [c EXCEPT !.pc = "done", !.status = 500]
    [] OTHER -> [c EXCEPT !.pc = "insert"]

\* the mutant of RemoveStatus: removing a pair that is not watched is an error
RemoveStatusStrict(rows, userId, symbol) ==
  IF Len(WatchRowsOf(rows, userId, symbol)) = 0 THEN 404 ELSE 200

\* db.delete resolves whether or not a row matched: removeWatchedAsset never
\* rejects on an absent pair
RemoveStatus(rows, userId, symbol) == 200

\* history, taken when an initializeExchangeData call starts: the symbols
\* whose row an earlier such call wrote no more than 5 minutes before
FreshlyRefreshed(at, t) ==
  {s \in DOMAIN at : at[s] # NoTime /\ t - at[s] <= STALE_MS}

\* a request slot is free for a new request: it never ran one, or answered it
CanStart(p) == p # StartupProc /\ calls[p].pc \in {"idle", "done"}

\* no payment request yet
FreePay == [pc |-> "idle", userId |-> "", company |-> "", amount |-> 0, read |-> 0,
            status |-> 0]

\* the account of the seeded company; `balance` is its balance; createdBy
\* is history: the user whose createEnhancedAccount inserted the row
FirstAccount == [id |-> "acc1", companyId |-> "c1", createdBy |-> ""]

\* the bank tables before any payment, over the company tables `tables`;
\* the company has its account, or none when `bare` allows it
InitBankOf(tables, bare) ==
  /\ balance = InitialBalance
  /\ transactions = << >>
  /\ companies \in tables
  /\ accounts \in IF companies = << >> THEN {<< >>}
                  ELSE {<<FirstAccount>>} \cup (IF bare THEN {<< >>} ELSE {})
  /\ pays = [p \in PaySlots |-> FreePay]

InitBank == InitBankOf({<<"c1">>}, FALSE)

\* a user object of a session with no property set
NoUser == [defined |-> FALSE, personnummer |-> "", sub |-> "", id |-> ""]

\* a session the store holds nothing for
NoSession == [bankid_state |-> "", user |-> NoUser, dev |-> NoUser]

\* no request answered yet
NoResp == [route |-> "", session |-> "", status |-> 0, userId |-> "", authMethod |-> "",
           id |-> "", state |-> "", body |-> << >>, n |-> 0]

\* the users table at start: an administrator, a plain user, no other row
SeededUsers == [u \in {"a1", "u1"} |-> IF u = "a1" THEN "admin" ELSE "user"]

\* the ids a users row can have
UserIds == OidcSubs \cup {"12345678901", "98765432109", "11223344556", "dev-alice"}

\* a companies row as createCompany inserts it
NewCompany(name, kycStatus, createdFor) ==
  [name |-> name, kycStatus |-> kycStatus, verifiedBy |-> "", createdFor |-> createdFor]

\* the users and companies before any login, and no session
InitAuth ==
  /\ users = [u \in UserIds |-> IF u \in DOMAIN SeededUsers THEN SeededUsers[u] ELSE ""]
  /\ kyc = [c \in CompanyIds |-> NewCompany("Demo AS", "pending", "")]
  /\ sessions = [s \in SessionIds |-> NoSession]
  /\ resp = NoResp

\* the market tables and the call slots at start-up
InitMarket ==
  /\ now = 0
  /\ market = << >>
  /\ watched = << >>
  /\ refreshedAt = [s \in AllSymbols |-> NoTime]
  /\ calls = [p \in Procs |->
                IF p = StartupProc
                THEN [FreeCall EXCEPT !.kind = "startup", !.pc = "loop", !.idx = 1,
                                      !.batch = "running"]
                ELSE FreeCall]

Init ==
  /\ InitBank
  /\ InitAuth
  /\ InitMarket

\* time passes, to one of the instants
Tick(instants) ==
  /\ \E t \in instants : t > now /\ now' = t
  /\ UNCHANGED <<market, watched, calls, refreshedAt, bankVars, authVars>>

(* ------------------- updateMarketData, batch loops -------------------- *)

\* GET /api/market/live/:exchange -> getMarketDataByExchange(exchange): an
\* exchange outside the catalog throws (500); else initializeExchangeData starts
StartExchange(p, e) ==
  /\ CanStart(p)
  /\ calls' = [calls EXCEPT ![p] =
       IF e \notin DOMAIN EXCHANGE_STOCKS
       THEN [FreeCall EXCEPT !.kind = "exchange", !.exchange = e, !.pc = "done",
                             !.status = 500]
       ELSE [FreeCall EXCEPT !.kind = "exchange", !.exchange = e, !.pc = "loop",
                             !.idx = 1, !.batch = "running",
                             !.freshAtStart = FreshlyRefreshed(refreshedAt, now)]]
  /\ UNCHANGED <<now, market, watched, refreshedAt, bankVars, authVars>>

\* one stock of the for-loop: initializeNorwegianStocks calls updateMarketData
\* for it; initializeExchangeData reads its row and calls updateMarketData
\* when shouldUpdate, and goes on to the next stock otherwise.
\* updateMarketData starts the quote and the profile request together
BatchCheck(p) ==
  LET c == calls[p] IN
  /\ IsBatch(c) /\ c.pc = "loop" /\ c.idx <= Len(StocksOf(c))
  /\ LET sym == StocksOf(c)[c.idx].symbol
         call == IF c.kind = "startup" THEN TRUE
                 ELSE shouldUpdate(ExistingData(market, sym), now)
     IN  calls' = [calls EXCEPT ![p] =
           IF call
           THEN [c EXCEPT !.pc = "fetch", !.attemptAt = now,
                          !.visited = Append(c.visited, sym),
                          !.called = c.called \cup {sym}]
           ELSE [c EXCEPT !.idx = c.idx + 1,
                          !.visited = Append(c.visited, sym)]]
  /\ UNCHANGED <<now, market, watched, refreshedAt, bankVars, authVars>>

\* the for-loop is over: initializeNorwegianStocks resolves;
\* initializeExchangeData resolves and getMarketDataByExchange goes on to read
BatchEnd(p) ==
  LET c == calls[p] IN
  /\ IsBatch(c) /\ c.pc = "loop" /\ c.idx > Len(StocksOf(c))
  /\ calls' = [calls EXCEPT ![p] =
       [c EXCEPT !.batch = "resolved", !.attemptAt = NoTime, !.freshAtStart = {},
                 !.pc = IF c.kind = "startup" THEN "done" ELSE "read"]]
  /\ UNCHANGED <<now, market, watched, refreshedAt, bankVars, authVars>>

\* Promise.all([getQuote, getCompanyProfile.catch(() => null)]) settles: the
\* quote request failed (network error, non-2xx, error payload) and
\* updateMarketData rethrows, or the quote arrived and the profile is there or null
FetchSettle(p, prices, profiles) ==
  LET c == calls[p] IN
  /\ c.pc = "fetch"
  /\ \/ calls' = [calls EXCEPT ![p] = AfterRefreshFail(c, now)]
     \/ \E price \in prices, profile \in profiles :
          calls' = [calls EXCEPT ![p] =
                      [c EXCEPT !.pc = "upsert", !.price = price, !.profile = profile]]
  /\ UNCHANGED <<now, market, watched, refreshedAt, bankVars, authVars>>

\* the upsert of updateMarketData is applied, or the database fails it
UpsertStep(p) ==
  LET c == calls[p] IN
  /\ c.pc = "upsert"
  /\ \/ /\ HasArbiter(MARKET_UNIQUE, <<"symbol">>)
        /\ market' = UpsertMarketData(market, CurSym(c), c.price, c.profile, now)
        /\ calls' = [calls EXCEPT ![p] = AfterRefreshOk(c, now)]
        /\ refreshedAt' = IF c.kind = "exchange"
                          THEN [refreshedAt EXCEPT ![CurSym(c)] = now]
                          ELSE refreshedAt
     \/ /\ market' = market
        /\ calls' = [calls EXCEPT ![p] = AfterRefreshFail(c, now)]
        /\ UNCHANGED refreshedAt
  /\ UNCHANGED <<now, watched, bankVars, authVars>>

\* the setTimeout of the batch fires: the next stock
Wake(p) ==
  LET c == calls[p] IN
  /\ c.pc = "sleep" /\ now >= c.wakeAt
  /\ calls' = [calls EXCEPT ![p] =
       [c EXCEPT !.pc = "loop", !.idx = c.idx + 1, !.wakeAt = NoTime]]
  /\ UNCHANGED <<now, market, watched, refreshedAt, bankVars, authVars>>

\* getMarketDataByExchange after initializeExchangeData: getMarketDataFromDB
\* of the exchange's symbols, answered with 200
ReadExchange(p) ==
  LET c == calls[p] IN
  /\ c.kind = "exchange" /\ c.pc = "read"
  /\ \E data \in MarketDataFromDB(market,
                     {StocksOf(c)[i].symbol : i \in 1..Len(StocksOf(c))}) :
       calls' = [calls EXCEPT ![p] =
                   [c EXCEPT !.pc = "done", !.status = 200, !.result = data]]
  /\ UNCHANGED <<now, market, watched, refreshedAt, bankVars, authVars>>

(* --------------------- quote route, watchlist ------------------------- *)

\* the mutant of StartQuote: a row that is not stale is answered from the cache
StartQuoteCached(p, s) ==
  /\ CanStart(p)
  /\ calls' = [calls EXCEPT ![p] =
       [FreeCall EXCEPT !.kind = "quote", !.symbol = s, !.attemptAt = now,
                        !.pc = IF shouldUpdate(ExistingData(market, s), now)
                               THEN "fetch" ELSE "respond"]]
  /\ UNCHANGED <<now, market, watched, refreshedAt, bankVars, authVars>>

\* GET /api/market/quote/:symbol: updateMarketData(symbol) first, whatever
\* the cache holds (attemptAt: when the request started it)
StartQuote(p, s) ==
  /\ CanStart(p)
  /\ calls' = [calls EXCEPT ![p] =
       [FreeCall EXCEPT !.kind = "quote", !.symbol = s, !.attemptAt = now,
                        !.pc = "fetch"]]
  /\ UNCHANGED <<now, market, watched, refreshedAt, bankVars, authVars>>

\* ... then getMarketDataFromDB([symbol]): 404 when no row, else data[0]
QuoteRespond(p) ==
  LET c == calls[p] IN
  /\ c.kind = "quote" /\ c.pc = "respond"
  /\ \E data \in MarketDataFromDB(market, {c.symbol}) :
       calls' = [calls EXCEPT ![p] =
         IF Len(data) = 0
         THEN [c EXCEPT !.pc = "done", !.status = 404]
         ELSE [c EXCEPT !.pc = "done", !.status = 200, !.result = <<data[1]>>]]
  /\ UNCHANGED <<now, market, watched, refreshedAt, bankVars, authVars>>

\* GET /api/market/overview: getMarketDataFromDB() without a list, the first
\* 20 rows of it answered
Overview(p) ==
  /\ CanStart(p)
  /\ \E data \in MarketDataFromDB(market, {}) :
       calls' = [calls EXCEPT ![p] =
         [FreeCall EXCEPT !.kind = "overview", !.pc = "done", !.status = 200,
                          !.result = SubSeq(data, 1, IF Len(data) < 20 THEN Len(data) ELSE 20)]]
  /\ UNCHANGED <<now, market, watched, refreshedAt, bankVars, authVars>>

\* POST /api/market/watchlist and /api/market/watch -> addWatchedAsset(userId,
\* symbol, isFavorite): updateMarketData(symbol) first, its failure swallowed
StartAdd(p, u, s, fav) ==
  /\ CanStart(p)
  /\ calls' = [calls EXCEPT ![p] =
       [FreeCall EXCEPT !.kind = "add", !.userId = u, !.symbol = s,
                        !.isFavorite = fav, !.pc = "fetch"]]
  /\ UNCHANGED <<now, market, watched, refreshedAt, bankVars, authVars>>

\* POST /api/market/toggle-favorite -> toggleFavorite(userId, symbol): the
\* select; without a row addWatchedAsset(userId, symbol, true) starts, with
\* one the update to the negation of the value read comes next
StartToggle(p, u, s) ==
  /\ CanStart(p)
  /\ LET existing == WatchRowsOf(watched, u, s) IN
     calls' = [calls EXCEPT ![p] =
       IF Len(existing) = 0
       THEN [FreeCall EXCEPT !.kind = "toggle", !.userId = u, !.symbol = s,
                             !.isFavorite = TRUE, !.pc = "fetch"]
       ELSE [FreeCall EXCEPT !.kind = "toggle", !.userId = u, !.symbol = s,
                             !.isFavorite = ~existing[1].isFavorite, !.pc = "update"]]
  /\ UNCHANGED <<now, market, watched, refreshedAt, bankVars, authVars>>

\* the write of addWatchedAsset (the insert) or of toggleFavorite (the
\* update) is applied; a rejected statement rejects the call (500)
WatchWrite(p) ==
  LET c == calls[p] IN
  /\ c.pc \in {"insert", "update"}
  /\ IF c.pc = "insert"
     THEN LET r == InsertWatchedAsset(watched, c.userId, c.symbol, c.isFavorite, now)
          IN  /\ watched' = r.rows
              /\ calls' = [calls EXCEPT ![p] =
                   [c EXCEPT !.pc = "done", !.status = IF r.ok THEN 200 ELSE 500]]
     ELSE /\ watched' = UpdateFavorite(watched, c.userId, c.symbol, c.isFavorite, now)
          /\ calls' = [calls EXCEPT ![p] = [c EXCEPT !.pc = "done", !.status = 200]]
  /\ UNCHANGED <<now, market, refreshedAt, bankVars, authVars>>

\* DELETE /api/market/watchlist/:symbol and /api/market/watch/:symbol ->
\* removeWatchedAsset(userId, symbol): the delete, answered with success
Remove(p, u, s) ==
  /\ CanStart(p)
  /\ watched' = DeleteWatched(watched, u, s)
  /\ calls' = [calls EXCEPT ![p] =
       [FreeCall EXCEPT !.kind = "remove", !.userId = u, !.symbol = s,
                        !.pc = "done", !.status = RemoveStatus(watched, u, s)]]
  /\ UNCHANGED <<now, market, refreshedAt, bankVars, authVars>>

\* GET /api/market/watchlist -> getUserWatchedAssets(userId), answered with
\* the list
List(p, u) ==
  /\ CanStart(p)
  /\ \E list \in UserWatchedListings(watched, market, u) :
       calls' = [calls EXCEPT ![p] =
         [FreeCall EXCEPT !.kind = "list", !.userId = u, !.pc = "done",
                          !.status = 200, !.result = list]]
  /\ UNCHANGED <<now, market, watched, refreshedAt, bankVars, authVars>>

(* -------------------------- invoice payment --------------------------- *)

\* storage.getCompanyByUser(userId): the first row of companies, whoever the
\* user is ("": undefined)
getCompanyByUser(table, userId) == IF table = << >> THEN "" ELSE table[1]

\* storage.getAccountsByCompany(companyId): the accounts of the company
getAccountsByCompany(rows, companyId) ==
  SelectSeq(rows, LAMBDA r : r.companyId = companyId)

\* the catch of the payment handler: 500, whatever was written stays
PayFailed(p) == [pays EXCEPT ![p] = [pays[p] EXCEPT !.pc = "done", !.status = 500]]

\* POST /api/payments/invoice: the body is validated (400 without an
\* amount), the user's company is looked up (404 without one) and the PSD2
\* request is logged; `ok`: the database statements succeed
PayStart(p, u, kidNumber, amount, ok) ==
  /\ pays[p].pc = "idle"
  /\ pays' = [pays EXCEPT ![p] =
       IF kidNumber = "" \/ amount = 0
       THEN [FreePay EXCEPT !.userId = u, !.pc = "done", !.status = 400]
       ELSE IF ~ok
       THEN [FreePay EXCEPT !.userId = u, !.amount = amount, !.pc = "done",
                            !.status = 500]
       ELSE IF getCompanyByUser(companies, u) = ""
       THEN [FreePay EXCEPT !.userId = u, !.amount = amount, !.pc = "done",
                            !.status = 404]
       ELSE [FreePay EXCEPT !.userId = u, !.amount = amount, !.pc = "accounts",
                            !.company = getCompanyByUser(companies, u)]]
  /\ UNCHANGED <<balance, transactions, companies, marketVars, accounts, authVars>>

\* storage.getAccountsByCompany(company.id): accounts[0].balance is read;
\* without an account the handler goes on to its answer
PayAccounts(p, ok) ==
  /\ pays[p].pc = "accounts"
  /\ pays' = IF ~ok THEN PayFailed(p)
             ELSE IF getAccountsByCompany(accounts, pays[p].company) = << >>
             THEN [pays EXCEPT ![p] = [pays[p] EXCEPT !.pc = "respond"]]
             ELSE [pays EXCEPT ![p] = [pays[p] EXCEPT !.read = balance,
                                                     !.pc = "transaction"]]
  /\ UNCHANGED <<balance, transactions, companies, marketVars, accounts, authVars>>

\* storage.createTransaction({type: "debit", amount, status: "completed"})
PayTransaction(p, ok) ==
  /\ pays[p].pc = "transaction"
  /\ IF ok
     THEN /\ transactions' = Append(transactions,
                [type |-> "debit", amount |-> pays[p].amount, status |-> "completed"])
          /\ pays' = [pays EXCEPT ![p] = [pays[p] EXCEPT !.pc = "update"]]
     ELSE /\ pays' = PayFailed(p)
          /\ UNCHANGED transactions
  /\ UNCHANGED <<balance, companies, marketVars, accounts, authVars>>

\* parseFloat(accounts[0].balance || "0") - parseFloat(amount), of the
\* balance read before the transaction was created
NewBalance(read, amount) == read - amount

\* storage.updateAccountBalance(accounts[0].id, newBalance)
PayUpdate(p, ok) ==
  /\ pays[p].pc = "update"
  /\ IF ok
     THEN /\ balance' = NewBalance(pays[p].read, pays[p].amount)
          /\ pays' = [pays EXCEPT ![p] = [pays[p] EXCEPT !.pc = "respond"]]
     ELSE /\ pays' = PayFailed(p)
          /\ UNCHANGED balance
  /\ UNCHANGED <<transactions, companies, marketVars, accounts, authVars>>

\* res.json({success: true, ...})
PayRespond(p) ==
  /\ pays[p].pc = "respond"
  /\ pays' = [pays EXCEPT ![p] = [pays[p] EXCEPT !.pc = "done", !.status = 200]]
  /\ UNCHANGED <<balance, transactions, companies, marketVars, accounts, authVars>>

(* ------------------------- sessions and roles ------------------------- *)

\* passport.deserializeUser: req.user of a request of the session
ReqUser(session) == session.user

\* the OIDC strategy logs `sub` in: req.user.claims.sub of the session's
\* later requests
OidcLogin(s, sub) ==
  /\ sessions' = [sessions EXCEPT
                    ![s].user = [NoUser EXCEPT !.defined = TRUE, !.sub = sub]]
  /\ UNCHANGED <<users, kyc, resp, marketVars, bankVars>>

\* isAuthenticated of replitAuth: the request carries an OIDC user
isAuthenticated(session) == ReqUser(session).defined /\ ReqUser(session).sub # ""

\* the answer to the request after the last one
Answer(route, s, status) ==
  [NoResp EXCEPT !.route = route, !.session = s, !.status = status, !.n = 1 - resp.n]

\* storage.getUser(id): the role of the user's row ("": no row)
getUser(table, id) == IF id \in DOMAIN table THEN table[id] ELSE ""

\* the mutant of MayAdminister: any user with a row passes
MayAdministerAnyUser(role) == role # ""

\* user?.role !== "admin" is false
MayAdminister(role) == role = "admin"

\* storage.getAllCompanies(): the rows of companies
getAllCompanies(table, k) ==
  [i \in 1..Len(table) |-> [id |-> table[i], kycStatus |-> k[table[i]].kycStatus]]

\* storage.updateCompanyKYC(companyId, status, data): the row of that id,
\* if there is one
updateCompanyKYC(table, k, companyId, status, verifiedBy) ==
  IF \E i \in 1..Len(table) : table[i] = companyId
  THEN [k EXCEPT ![companyId] = [@ EXCEPT !.kycStatus = status,
                                          !.verifiedBy = verifiedBy]]
  ELSE k

\* DEMO_USERS: the personnummer of the demo users
DEMO_USERS == {"12345678901", "98765432109", "11223344556"}

\* storage.upsertUser({id, ...}): a new row has the default role, a row
\* that exists keeps its role
upsertUser(table, id) == IF table[id] = "" THEN [table EXCEPT ![id] = "user"] ELSE table

\* `dev-${username}`
DevId(username) == IF username = "alice" THEN "dev-alice" ELSE "dev-"

\* POST /api/auth/dev-login
DevLogin(s, username) ==
  IF username = ""
  THEN /\ resp' = Answer("auth/dev-login", s, 400)
       /\ UNCHANGED <<users, kyc, sessions, marketVars, bankVars>>
  ELSE /\ users' = upsertUser(users, DevId(username))
       /\ sessions' = [sessions EXCEPT
            ![s].dev = [NoUser EXCEPT !.defined = TRUE, !.id = DevId(username),
                                      !.sub = DevId(username)]]
       /\ resp' = [Answer("auth/dev-login", s, 200) EXCEPT !.userId = DevId(username)]
       /\ UNCHANGED <<kyc, marketVars, bankVars>>

\* GET /api/auth/bankid in demo mode: a state is issued and stored
BankIDStart(s, state) ==
  /\ sessions' = [sessions EXCEPT ![s].bankid_state = state]
  /\ resp' = [Answer("auth/bankid", s, 302) EXCEPT !.state = state]
  /\ UNCHANGED <<users, kyc, marketVars, bankVars>>

\* state !== req.session.bankid_state is false ("": undefined)
StateMatches(state, stored) == state = stored

\* GET /api/auth/bankid/callback in demo mode; `keep`: req.logIn keeps
\* what the session held (it regenerates the session otherwise)
BankIDCallback(s, personnummer, state, keep) ==
  IF ~StateMatches(state, sessions[s].bankid_state) \/ personnummer \notin DEMO_USERS
  THEN /\ resp' = [Answer("auth/bankid/callback", s, 400) EXCEPT !.state = state]
       /\ UNCHANGED <<users, kyc, sessions, marketVars, bankVars>>
  ELSE /\ sessions' = [sessions EXCEPT ![s] =
            [(IF keep THEN sessions[s] ELSE NoSession) EXCEPT
               !.user = [NoUser EXCEPT !.defined = TRUE, !.personnummer = personnummer]]]
       /\ users' = upsertUser(users, personnummer)
       /\ resp' = [Answer("auth/bankid/callback", s, 302) EXCEPT
                     !.userId = personnummer, !.state = state]
       /\ UNCHANGED <<kyc, marketVars, bankVars>>

\* GET /api/auth/bankid/logout and POST /api/auth/dev-logout: the session
\* is destroyed
Logout(s) ==
  /\ sessions' = [sessions EXCEPT ![s] = NoSession]
  /\ resp' = Answer("logout", s, 200)
  /\ UNCHANGED <<users, kyc, marketVars, bankVars>>

\* isAnyAuthenticated: the request is let through
isAnyAuthenticated(session) ==
  \/ ReqUser(session).defined /\ ReqUser(session).personnummer # ""
  \/ ReqUser(session).defined /\ ReqUser(session).sub # ""
  \/ session.dev.defined

\* req.user after isAnyAuthenticated: the passport user when it carries a
\* personnummer or claims.sub, the developer session's user otherwise
AdmittedUser(session) ==
  IF ReqUser(session).defined
       /\ (ReqUser(session).personnummer # "" \/ ReqUser(session).sub # "")
  THEN ReqUser(session)
  ELSE session.dev

\* authMethod of GET /api/auth/user ("": invalid authentication state)
authMethod(user) ==
  IF user.personnummer # "" THEN "BankID"
  ELSE IF user.sub # "" THEN "Replit"
  ELSE IF user.id # "" THEN "Development"
  ELSE ""

\* userId of GET /api/auth/user
authUserId(user) ==
  IF user.personnummer # "" THEN user.personnummer
  ELSE IF user.sub # "" THEN user.sub
  ELSE user.id

\* GET /api/auth/user
AuthUser(s) ==
  LET user == AdmittedUser(sessions[s])
  IN  /\ resp' = IF ~isAnyAuthenticated(sessions[s]) \/ authMethod(user) = ""
                 THEN Answer("auth/user", s, 401)
                 ELSE IF getUser(users, authUserId(user)) = ""
                 THEN [Answer("auth/user", s, 404) EXCEPT !.userId = authUserId(user)]
                 ELSE [Answer("auth/user", s, 200) EXCEPT
                         !.userId = authUserId(user), !.authMethod = authMethod(user)]
      /\ UNCHANGED <<users, kyc, sessions, marketVars, bankVars>>

\* req.user.claims?.sub || req.user.id ("": undefined)
routeUserId(user) == IF user.sub # "" THEN user.sub ELSE user.id

\* the watchlist and account routes up to their user id: 401, or the id
\* the handler goes on with
RouteUser(s) ==
  /\ resp' = IF ~isAnyAuthenticated(sessions[s])
             THEN Answer("market/watchlist", s, 401)
             ELSE [Answer("market/watchlist", s, 200) EXCEPT
                     !.userId = routeUserId(AdmittedUser(sessions[s]))]
  /\ UNCHANGED <<users, kyc, sessions, marketVars, bankVars>>

\* GET /api/admin/companies
AdminCompanies(s) ==
  LET sub == ReqUser(sessions[s]).sub
  IN  /\ resp' = IF ~isAuthenticated(sessions[s])
                 THEN Answer("admin/companies", s, 401)
                 ELSE IF ~MayAdminister(getUser(users, sub))
                 THEN [Answer("admin/companies", s, 403) EXCEPT !.userId = sub]
                 ELSE [Answer("admin/companies", s, 200) EXCEPT
                         !.userId = sub, !.body = getAllCompanies(companies, kyc)]
      /\ UNCHANGED <<users, kyc, sessions, marketVars, bankVars>>

\* POST /api/admin/companies/:id/verify
AdminVerify(s, id, status) ==
  LET sub == ReqUser(sessions[s]).sub
      admitted == isAuthenticated(sessions[s])
      allowed == admitted /\ MayAdminister(getUser(users, sub))
  IN  /\ resp' = IF ~admitted
                 THEN [Answer("admin/verify", s, 401) EXCEPT !.id = id]
                 ELSE IF ~allowed
                 THEN [Answer("admin/verify", s, 403) EXCEPT !.userId = sub, !.id = id]
                 ELSE [Answer("admin/verify", s, 200) EXCEPT !.userId = sub, !.id = id]
      /\ kyc' = IF allowed THEN updateCompanyKYC(companies, kyc, id, status, sub) ELSE kyc
      /\ UNCHANGED <<users, sessions, marketVars, bankVars>>

\* POST /api/webhooks/kyc: the KYC provider reports a review
KycWebhook(companyId, reviewStatus) ==
  /\ kyc' = updateCompanyKYC(companies, kyc, companyId,
               IF reviewStatus = "completed" THEN "verified" ELSE "pending", "")
  /\ resp' = [Answer("webhooks/kyc", "", 200) EXCEPT !.id = companyId]
  /\ UNCHANGED <<users, sessions, marketVars, bankVars>>

(* -------------------------- enhanced accounts ------------------------- *)

\* the id has the form of a UUID: companies.id and accounts.company_id are
\* uuid columns, and a comparison with any other text is rejected
IsUuid(id) == id \in CompanyIds \cup {"9f1c"}

\* db.select().from(companies).where(eq(companies.id, userId))
userCompanies(table, userId) == SelectSeq(table, LAMBDA c : c = userId)

\* gen_random_uuid(): an id no row has
FreshIds(ids, used) == ids \ used

\* the company the two calls use without creating one: userCompanies[0].id
\* ("": none, a default company is created)
OwnCompany(table, k, userId) ==
  IF userCompanies(table, userId) # << >> THEN userId ELSE ""

\* storage.getAllAccountsForUser(userId), behind GET /api/accounts/all
AllAccounts(userId) ==
  LET own == OwnCompany(companies, kyc, userId) IN
  /\ UNCHANGED <<users, sessions, marketVars, balance, transactions, pays, accounts>>
  /\ IF ~IsUuid(userId)
       THEN /\ resp' = [Answer("accounts/all", "", 500) EXCEPT !.userId = userId]
            /\ UNCHANGED <<companies, kyc>>
       ELSE IF own # ""
       THEN /\ resp' = [Answer("accounts/all", "", 200) EXCEPT
                          !.userId = userId,
                          !.body = getAccountsByCompany(accounts, own)]
            /\ UNCHANGED <<companies, kyc>>
       ELSE \E id \in FreshIds(CompanyIds, {companies[i] : i \in DOMAIN companies}) :
            /\ companies' = Append(companies, id)
            /\ kyc' = [kyc EXCEPT ![id] = NewCompany("Personal Banking", "verified", userId)]
            /\ resp' = [Answer("accounts/all", "", 200) EXCEPT
                          !.userId = userId, !.body = getAccountsByCompany(accounts, id)]

\* storage.createEnhancedAccount(userId, accountData), behind
\* POST /api/accounts/create
CreateAccount(userId) ==
  LET own == OwnCompany(companies, kyc, userId) IN
  /\ UNCHANGED <<users, sessions, marketVars, balance, transactions, pays>>
  /\ IF ~IsUuid(userId)
       THEN /\ resp' = [Answer("accounts/create", "", 500) EXCEPT !.userId = userId]
            /\ UNCHANGED <<companies, kyc, accounts>>
       ELSE \E acc \in FreshIds(AccountIds, {accounts[i].id : i \in DOMAIN accounts}) :
            \E id \in IF own # "" THEN {own}
                      ELSE FreshIds(CompanyIds, {companies[i] : i \in DOMAIN companies}) :
              /\ companies' = IF own # "" THEN companies ELSE Append(companies, id)
              /\ kyc' = IF own # "" THEN kyc
                        ELSE [kyc EXCEPT ![id] = NewCompany("Personal Banking", "verified", userId)]
              /\ accounts' = Append(accounts, [id |-> acc, companyId |-> id, createdBy |-> userId])
              /\ resp' = [Answer("accounts/create", "", 200) EXCEPT !.userId = userId, !.id = acc]

(* --------------------------- specifications --------------------------- *)

\* the steps of updateMarketData and of the batch loops, by the calls of `ps`
Refresh(ps, prices, profiles) ==
  \E p \in ps :
     \/ BatchCheck(p)
     \/ BatchEnd(p)
     \/ FetchSettle(p, prices, profiles)
     \/ UpsertStep(p)
     \/ Wake(p)
     \/ ReadExchange(p)

\* the refresh cache over time: the start-up batch and one request at a time
Next ==
  \/ Tick(Instants)
  \/ \E e \in ExchangeInputs : StartExchange("r1", e)
  \/ Refresh({StartupProc, "r1"}, {100}, {"null"})

Spec == Init /\ [][Next]_vars

\* every route of the market service, one request at a time beside the
\* start-up batch
NextAll ==
  \/ Tick(EarlyInstants)
  \/ \E e \in ExchangeInputs : StartExchange("r1", e)
  \/ \E sym \in SymbolInputs : StartQuote("r1", sym)
  \/ QuoteRespond("r1")
  \/ Overview("r1")
  \/ \E u \in UserInputs, sym \in SymbolInputs, fav \in BOOLEAN : StartAdd("r1", u, sym, fav)
  \/ \E u \in UserInputs, sym \in SymbolInputs : StartToggle("r1", u, sym)
  \/ WatchWrite("r1")
  \/ \E u \in UserInputs, sym \in SymbolInputs : Remove("r1", u, sym)
  \/ Refresh({StartupProc, "r1"}, {100}, {"null"})

SpecAll == Init /\ [][NextAll]_vars

\* the watchlist routes, two requests at a time (the start-up batch waits for
\* its first answer throughout)
NextWatch ==
  \E p \in Slots :
     \/ \E u \in UserInputs, sym \in SymbolInputs, fav \in BOOLEAN : StartAdd(p, u, sym, fav)
     \/ \E u \in UserInputs, sym \in SymbolInputs : StartToggle(p, u, sym)
     \/ WatchWrite(p)
     \/ \E u \in UserInputs, sym \in SymbolInputs : Remove(p, u, sym)
     \/ FetchSettle(p, Prices, {"null"})
     \/ UpsertStep(p)

SpecWatch == Init /\ [][NextWatch]_vars

\* the steps of the quote route, by the request slots `ps`
QuoteRoute(ps, symbols, prices, profiles) ==
  \E p \in ps :
     \/ \E sym \in symbols : StartQuote(p, sym)
     \/ FetchSettle(p, prices, profiles)
     \/ UpsertStep(p)
     \/ QuoteRespond(p)

\* the quote route over time, two requests at a time
NextQuote ==
  \/ Tick(EarlyInstants)
  \/ QuoteRoute(Slots, {"EQNR.OL", "NVDA"}, Prices, {"null"})

SpecQuote == Init /\ [][NextQuote]_vars

\* the rows a watched_assets table may hold: the user, the symbol and the
\* flag of a call, created_at and updated_at by defaultNow()
WatchRowInputs ==
  [userId : UserInputs, symbol : SymbolInputs, isFavorite : BOOLEAN,
   createdAt : EarlyInstants, updatedAt : EarlyInstants]

\* getUserWatchedAssets over the tables it may find: up to MaxRows watch rows
\* (the schema admits several rows of one pair), and a cache that has a row
\* of the first symbol of the catalog or none
InitList ==
  /\ InitBank
  /\ InitAuth
  /\ now = DELAY_MS
  /\ \E n \in 0..MaxRows :
       watched \in {t \in [1..n -> WatchRowInputs] :
                      \A i \in 1..n : t[i].updatedAt = t[i].createdAt}
  /\ market \in {<< >>, UpsertMarketData(<< >>, "EQNR.OL", 100, "null", 0)}
  /\ refreshedAt = [s \in AllSymbols |-> NoTime]
  /\ calls = [p \in Procs |-> FreeCall]

NextList == \E u \in UserInputs : List("r1", u)

SpecList == InitList /\ [][NextList]_vars

\* toggleFavorite on a table that holds a row, not a favorite, of the first
\* symbol for every user
InitToggle ==
  /\ InitBank
  /\ InitAuth
  /\ now = 0
  /\ watched \in {t \in [1..Cardinality(UserInputs) -> WatchRowInputs] :
                   /\ \A i \in DOMAIN t :
                        /\ t[i].symbol = "EQNR.OL" /\ ~t[i].isFavorite
                        /\ t[i].createdAt = 0 /\ t[i].updatedAt = 0
                   /\ \A i, j \in DOMAIN t : t[i].userId = t[j].userId => i = j}
  /\ market = << >>
  /\ refreshedAt = [s \in AllSymbols |-> NoTime]
  /\ calls = [p \in Procs |-> FreeCall]

\* one toggleFavorite call in each request slot
NextToggle ==
  \/ Tick(EarlyInstants)
  \/ \E p \in Slots :
       \/ \E u \in UserInputs : calls[p].pc = "idle" /\ StartToggle(p, u, "EQNR.OL")
       \/ WatchWrite(p)

SpecToggle == InitToggle /\ [][NextToggle]_vars

\* invoice payments, two requests at a time
NextPay ==
  \E p \in PaySlots :
     \/ \E u \in UserInputs, kidNumber \in KidInputs, amount \in AmountInputs,
           ok \in BOOLEAN : PayStart(p, u, kidNumber, amount, ok)
     \/ \E ok \in BOOLEAN : PayAccounts(p, ok)
     \/ \E ok \in BOOLEAN : PayTransaction(p, ok)
     \/ \E ok \in BOOLEAN : PayUpdate(p, ok)
     \/ PayRespond(p)

InitPay == InitBankOf(CompanyTables, TRUE) /\ InitAuth /\ InitMarket

SpecPay == InitPay /\ [][NextPay]_vars

\* the administration routes, the KYC webhook and OIDC logins
NextAdmin ==
  \/ \E s \in SessionIds, sub \in OidcSubs : OidcLogin(s, sub)
  \/ \E s \in SessionIds : AdminCompanies(s)
  \/ \E s \in SessionIds, id \in CompanyIds, status \in KycStatusInputs :
       AdminVerify(s, id, status)
  \/ \E id \in CompanyIds, reviewStatus \in {"completed", "pending"} :
       KycWebhook(id, reviewStatus)

SpecAdmin == Init /\ [][NextAdmin]_vars

\* the enhanced account routes
NextAccounts ==
  \E userId \in AccountUserInputs :
     \/ AllAccounts(userId)
     \/ CreateAccount(userId)

SpecAccounts == Init /\ [][NextAccounts]_vars

\* logins of the three strategies on two sessions, and the routes that
\* resolve the session's user
NextAuth ==
  \E s \in SessionIds :
     \/ \E sub \in {"u1", "u3"} : OidcLogin(s, sub)
     \/ \E username \in UsernameInputs : DevLogin(s, username)
     \/ \E state \in IssuedStates : BankIDStart(s, state)
     \/ \E personnummer \in PersonnummerInputs, state \in StateInputs, keep \in BOOLEAN :
          BankIDCallback(s, personnummer, state, keep)
     \/ Logout(s)
     \/ AuthUser(s)
     \/ RouteUser(s)

SpecAuth == Init /\ [][NextAuth]_vars

\* the quote route, one request at a time, over every symbol and every
\* answer to the profile request
NextProfile == QuoteRoute({"r1"}, QuoteSymbols, {100}, ProfileInputs)

SpecProfile == Init /\ [][NextProfile]_vars

\* the quote route, one request at a time, over time, every symbol, every
\* price and every answer to the profile request
NextRefresh ==
  \/ Tick(EarlyInstants)
  \/ QuoteRoute({"r1"}, QuoteSymbols, Prices, ProfileInputs)

SpecRefresh == Init /\ [][NextRefresh]_vars

(* ------------------------------- claims ------------------------------- *)

SymbolsOf(stocks) == [i \in 1..Len(stocks) |-> stocks[i].symbol]

\* p starts updateMarketData for a stock of its batch in this step
StartsRefresh(p) == IsBatch(calls[p]) /\ calls[p].pc = "loop" /\ calls'[p].pc = "fetch"

\* p handles one stock of its initializeExchangeData loop in this step
ChecksStock(p) ==
  /\ calls[p].kind = "exchange" /\ calls[p].pc = "loop"
  /\ Len(calls'[p].visited) = Len(calls[p].visited) + 1

\* C1 as claimed: when initializeExchangeData is called again and the call
\* starts within 5 minutes of an earlier call's refresh of S, the later call
\* does not refresh S (so the two refresh S at most once)
C1_Original ==
  \A p \in Procs :
    calls[p].kind = "exchange" /\ calls[p].pc \in {"fetch", "upsert"}
      => CurSym(calls[p]) \notin calls[p].freshAtStart

\* C1 amended: when a call of initializeExchangeData reaches S no later than
\* 5 minutes after an earlier call's refresh wrote S's row, it does not call
\* updateMarketData for S: a cache hit, one refresh of S by the two calls
C1_Amended ==
  [][\A p \in Procs :
       ChecksStock(p) /\ calls'[p].pc = "fetch"
         => LET at == refreshedAt[CurSym(calls[p])]
            IN  at = NoTime \/ now - at > STALE_MS]_vars

\* C1 witness: a call has passed over a stock (no updateMarketData so far in
\* the call) whose row an earlier call wrote no more than 5 minutes ago
C1_Witness ==
  \E p \in Procs :
    LET c == calls[p] IN
    /\ c.kind = "exchange" /\ c.batch = "running" /\ Len(c.visited) >= 1
    /\ c.called = {}
    /\ refreshedAt[c.visited[1]] # NoTime
    /\ now - refreshedAt[c.visited[1]] <= STALE_MS

\* the first row of market_data for the symbol is older than 5 minutes
Stale(symbol) ==
  LET found == RowsOf(market, symbol)
  IN  Len(found) > 0 /\ now - found[1].lastUpdated > STALE_MS

C3_OneRowPerSymbol ==
  \A sym \in AllSymbols : Len(RowsOf(market, sym)) <= 1

\* C3 witness: the upsert met an existing row: the first row of the table was
\* written again after the second row was inserted
C3_Witness ==
  /\ Len(market) >= 2
  /\ market[1].lastUpdated > market[2].lastUpdated

C5_AddedOnce ==
  [][\A p \in Slots :
       calls[p].kind = "add" /\ calls[p].pc = "insert" /\ calls'[p].pc = "done"
         => LET c == calls[p]
                list == UserWatchedAssets(watched', market', c.userId)
                hits == {i \in 1..Len(list) : list[i].watchedAsset.symbol = c.symbol}
            IN  /\ Cardinality(hits) = 1
                /\ \A i \in hits : list[i].watchedAsset.isFavorite = c.isFavorite]_vars

\* C6 as claimed: toggleFavorite on a pair without a row leaves one row with
\* isFavorite true; on a pair with a row it leaves the row with the negation
\* of the value it had
C6_Toggled ==
  [][\A p \in Slots :
       /\ calls[p].kind = "toggle" /\ calls[p].pc \in {"insert", "update"}
       /\ calls'[p].pc = "done"
       => LET c == calls[p]
              rows == WatchRowsOf(watched', c.userId, c.symbol)
          IN  /\ Len(rows) = 1
              /\ rows[1].isFavorite = c.isFavorite
              /\ c.pc = "insert" => rows[1].isFavorite]_vars

C8_Spaced ==
  [][\A p \in Procs :
       StartsRefresh(p) /\ calls[p].attemptAt # NoTime
         => now - calls[p].attemptAt >= DELAY_MS]_vars

\* C9 as claimed: a batch has at most one request to the provider in flight
C9_OneInFlight ==
  \A p \in Procs : IsBatch(calls[p]) => Cardinality(InFlight(calls[p])) <= 1

\* C10: a batch goes through the stocks of its list once each, in list order,
\* and resolves after the last one; a failed updateMarketData is caught, the
\* batch never rejects, and the start-up batch has called updateMarketData
\* for every stock when it resolves
C10_EveryStockOnce ==
  \A p \in Procs :
    LET c == calls[p] IN
    IsBatch(c) /\ c.batch # "none"
      => LET all == SymbolsOf(StocksOf(c)) IN
         /\ c.batch \in {"running", "resolved"}
         /\ Len(c.visited) <= Len(all)
         /\ c.visited = SubSeq(all, 1, Len(c.visited))
         /\ c.batch = "resolved"
              => /\ c.visited = all
                 /\ c.kind = "startup" => c.called = {all[i] : i \in 1..Len(all)}

\* C10 witness: the start-up batch resolved although updateMarketData failed
\* for its first stock (no row for it) and went on to write the second
C10_Witness ==
  /\ calls[StartupProc].batch = "resolved"
  /\ calls["r1"].kind = "free"
  /\ Len(RowsOf(market, NORWEGIAN_STOCKS[1].symbol)) = 0
  /\ Len(RowsOf(market, NORWEGIAN_STOCKS[2].symbol)) = 1

\* C11: when the quote request of updateMarketData fails, the caller gets the
\* error (the quote route answers 500, a batch takes its catch branch and
\* goes to the next stock, addWatchedAsset takes its catch branch and goes to
\* its insert) and market_data is exactly as before: no row inserted, no row
\* changed
C11_QuoteFailure ==
  [][\A p \in Procs :
       calls[p].pc = "fetch" /\ calls'[p].pc \notin {"fetch", "upsert"}
         => /\ market' = market
            /\ calls[p].kind = "quote"
                 => calls'[p].pc = "done" /\ calls'[p].status = 500
            /\ IsBatch(calls[p])
                 => calls'[p].pc = "loop" /\ calls'[p].idx = calls[p].idx + 1
            /\ calls[p].kind \in {"add", "toggle"} => calls'[p].pc = "insert"]_vars

\* C11 witness: the quote route answered 500 without a quote having arrived
\* (price still unset) for a symbol that has a row
C11_Witness ==
  \E p \in Procs :
    /\ calls[p].kind = "quote" /\ calls[p].pc = "done" /\ calls[p].status = 500
    /\ calls[p].price = 0
    /\ Len(RowsOf(market, calls[p].symbol)) = 1

\* the catalog entries of a symbol, over every exchange
CatalogEntries(symbol) ==
  {x \in {EXCHANGE_STOCKS[e][i] : e \in DOMAIN EXCHANGE_STOCKS, i \in 1..8} :
     x.symbol = symbol}

\* the fallback name and sector of a symbol: the catalog's, else the symbol
\* itself and "Unknown"
FallbackName(symbol) ==
  IF CatalogEntries(symbol) = {} THEN symbol
  ELSE (CHOOSE x \in CatalogEntries(symbol) : TRUE).name
FallbackSector(symbol) ==
  IF CatalogEntries(symbol) = {} THEN "Unknown"
  ELSE (CHOOSE x \in CatalogEntries(symbol) : TRUE).sector

\* the symbol has ".OL" somewhere
HasOsloMark(symbol) ==
  LET chars == SymbolChars(symbol)
  IN  \E i \in 1..Len(chars) :
        i + 2 <= Len(chars) /\ chars[i] = "." /\ chars[i + 1] = "O" /\ chars[i + 2] = "L"

\* p's updateMarketData, whose profile request failed, has its upsert applied
\* in this step
WritesWithoutProfile(p) ==
  /\ calls[p].kind = "quote" /\ calls[p].pc = "upsert" /\ calls[p].profile = "null"
  /\ calls'[p].pc = "respond"

\* C12 as claimed: when the profile request failed and the quote arrived, the
\* symbol's row after the write has the fallback name (catalog, else the
\* symbol), the fallback sector (catalog, else "Unknown") and the currency
\* NOK for a symbol that ends with ".OL", USD for any other
C12_Original ==
  [][\A p \in Procs :
       WritesWithoutProfile(p)
         => LET sym == calls[p].symbol
                row == RowsOf(market', sym)[1]
                chars == SymbolChars(sym)
                suffix == /\ Len(chars) >= 3
                          /\ SubSeq(chars, Len(chars) - 2, Len(chars)) = <<".", "O", "L">>
            IN  /\ row.name = FallbackName(sym)
                /\ row.sector = FallbackSector(sym)
                /\ row.currency = IF suffix THEN "NOK" ELSE "USD"]_vars

\* C12 amended: when the profile request failed and the quote arrived, the
\* write is applied; for a symbol without a row it inserts a row with the
\* fallback name (catalog, else the symbol), the fallback sector (catalog,
\* else "Unknown") and the currency NOK when the symbol has ".OL" anywhere in
\* it, USD otherwise; for a symbol with a row it leaves the row's name, sector
\* and currency as they are
C12_Amended ==
  [][\A p \in Procs :
       WritesWithoutProfile(p)
         => LET sym == calls[p].symbol
                old == RowsOf(market, sym)
                row == RowsOf(market', sym)[1]
            IN  /\ Len(RowsOf(market', sym)) = 1
                /\ Len(old) = 0
                     => /\ row.name = FallbackName(sym)
                        /\ row.sector = FallbackSector(sym)
                        /\ row.currency = IF HasOsloMark(sym) THEN "NOK" ELSE "USD"
                /\ Len(old) > 0
                     => /\ row.name = old[1].name
                        /\ row.sector = old[1].sector
                        /\ row.currency = old[1].currency]_vars

\* C12 witness: the rows of a catalog symbol and of a symbol outside the
\* catalog were both inserted from the fallbacks
C12_Witness ==
  /\ calls["r1"].kind = "quote" /\ calls["r1"].pc = "respond"
  /\ calls["r1"].profile = "null"
  /\ \E i, j \in 1..Len(market) :
       /\ market[i].symbol = "EQNR.OL" /\ market[i].name = "Equinor ASA"
       /\ market[i].sector = "Energy" /\ market[i].currency = "NOK"
       /\ market[j].symbol = "NVDA" /\ market[j].name = "NVDA"
       /\ market[j].sector = "Unknown" /\ market[j].currency = "USD"

\* C13 as claimed: addWatchedAsset, called directly or by toggleFavorite for
\* a pair without a row, succeeds and leaves the watch row also when its
\* updateMarketData failed (no quote arrived: price still unset)
C13_AddSurvivesRefreshFailure ==
  [][\A p \in Slots :
       /\ calls[p].kind \in {"add", "toggle"} /\ calls[p].pc = "insert"
       /\ calls[p].price = 0
       /\ calls'[p].pc = "done"
       => /\ calls'[p].status = 200
          /\ Len(WatchRowsOf(watched', calls[p].userId, calls[p].symbol)) = 1]_vars

\* the row carries the six quote values of the provider's answer with price c
CarriesQuote(row, c) ==
  /\ row.price = Quote(c).c /\ row.change = Quote(c).d
  /\ row.changePercent = Quote(c).dp /\ row.previousClose = Quote(c).pc
  /\ row.dayHigh = Quote(c).h /\ row.dayLow = Quote(c).l

\* C14: under concurrent refreshes of a symbol, every state of its row has
\* the price, change, percent change, previous close, day high and day low
\* of one and the same refresh, and each applied write leaves the row with
\* the values of the refresh that wrote it (so the last write applied wins)
C14_AtomicLastWriter ==
  /\ [](\A i \in 1..Len(market) : \E c \in Prices : CarriesQuote(market[i], c))
  /\ [][\A p \in Procs :
          calls[p].pc = "upsert" /\ calls'[p].pc = "respond"
            => LET rows == RowsOf(market', calls[p].symbol)
               IN  Len(rows) = 1 /\ CarriesQuote(rows[1], calls[p].price)]_vars

\* C14 witness: two requests refreshed the same symbol at the same time with
\* different quotes, and both writes have been applied
C14_Witness ==
  /\ \A p \in Slots : calls[p].kind = "quote" /\ calls[p].pc = "respond"
  /\ calls["r1"].symbol = calls["r2"].symbol
  /\ calls["r1"].price # calls["r2"].price

\* the watch rows a user owns
RowsOfUser(rows, userId) == SelectSeq(rows, LAMBDA r : r.userId = userId)

Occurrences(rows, r) == Cardinality({i \in 1..Len(rows) : rows[i] = r})

ReturnsExchange(p) ==
  calls[p].kind = "exchange" /\ calls[p].pc = "read" /\ calls'[p].pc = "done"

\* C17 as claimed: getMarketDataByExchange(E) returns exactly one record for
\* every symbol of E's catalog entry and none for any other symbol
C17_Original ==
  [][\A p \in Procs :
       ReturnsExchange(p)
         => LET res == calls'[p].result
                all == SymbolsOf(StocksOf(calls[p]))
            IN  /\ \A i \in 1..Len(all) :
                     Cardinality({j \in 1..Len(res) : res[j].symbol = all[i]}) = 1
                /\ \A j \in 1..Len(res) : \E i \in 1..Len(all) : res[j].symbol = all[i]]_vars

\* C17 amended: getMarketDataByExchange(E) returns the cached row of every
\* symbol of E's catalog entry that has one, once each, and no other record:
\* a catalog symbol that has no row when the call reads (its refreshes have
\* all failed so far) has no record in the result
C17_Amended ==
  [][\A p \in Procs :
       ReturnsExchange(p)
         => LET res == calls'[p].result
                all == SymbolsOf(StocksOf(calls[p]))
            IN  /\ \A i \in 1..Len(all) :
                     Cardinality({j \in 1..Len(res) : res[j].symbol = all[i]})
                       = IF \E k \in 1..Len(market) : market[k].symbol = all[i]
                         THEN 1 ELSE 0
                /\ \A j \in 1..Len(res) :
                     /\ \E i \in 1..Len(all) : res[j].symbol = all[i]
                     /\ \E k \in 1..Len(market) : market[k] = res[j]]_vars

\* C17 witness: the exchange route answered with the row of its first
\* catalog symbol alone, while the cache also has a row outside the catalog
C17_Witness ==
  \E p \in Procs :
    /\ calls[p].kind = "exchange" /\ calls[p].pc = "done" /\ calls[p].status = 200
    /\ Len(calls[p].result) = 1
    /\ calls[p].result[1].symbol = NORWEGIAN_STOCKS[1].symbol
    /\ \E k \in 1..Len(market) : market[k].symbol = "AAPL"

\* C18 as claimed: every result of getMarketDataFromDB, with a list of
\* symbols (exchange route, quote route) or without one (overview route),
\* is ordered by lastUpdated descending, and the read writes nothing to the
\* cache and has no provider request in flight
C18_ReadOrdered ==
  [][\A p \in Procs :
       /\ calls[p].pc \in {"read", "respond", "idle", "done"}
       /\ calls'[p].kind \in {"exchange", "quote", "overview"}
       /\ calls'[p].pc = "done" /\ calls'[p].status = 200
       /\ calls'[p] # calls[p]
       => LET res == calls'[p].result
          IN  /\ \A i, j \in 1..Len(res) :
                   i < j => res[i].lastUpdated >= res[j].lastUpdated
              /\ market' = market
              /\ InFlight(calls'[p]) = {}]_vars

\* C19: the quote route calls updateMarketData for the symbol whatever the
\* cache holds, before it reads, and a 200 answer comes after the quote has
\* arrived and carries the symbol's row as written at or after the start of
\* the request
C19_QuoteForcesRefresh ==
  [][\A p \in Slots :
       /\ calls'[p].kind = "quote" /\ calls'[p] # calls[p]
          /\ calls[p].pc \in {"idle", "done"}
          => calls'[p].pc = "fetch" /\ InFlight(calls'[p]) # {}
       /\ calls[p].kind = "quote" /\ calls[p].pc # "done"
          /\ calls'[p].pc = "done" /\ calls'[p].status = 200
          => /\ calls[p].pc = "respond" /\ calls[p].price # 0
             /\ Len(calls'[p].result) = 1
             /\ calls'[p].result[1].symbol = calls[p].symbol
             /\ calls'[p].result[1].lastUpdated >= calls[p].attemptAt]_vars

\* C19 witness: a request was answered with the row written at start-up
\* time, and a later request for the same symbol, started when that row was
\* one delay old, was answered with the row written in its own time
C19_Witness ==
  /\ \A p \in Slots : calls[p].kind = "quote" /\ calls[p].pc = "done" /\ calls[p].status = 200
  /\ calls["r1"].symbol = calls["r2"].symbol
  /\ calls["r1"].result[1].lastUpdated = 0
  /\ calls["r2"].attemptAt = DELAY_MS
  /\ calls["r2"].result[1].lastUpdated = DELAY_MS

\* the sum of the amounts of the payments of the slots `ps` that reported
\* success
RECURSIVE PaidBy(_)
PaidBy(ps) ==
  IF ps = {} THEN 0
  ELSE LET p == CHOOSE q \in ps : TRUE
       IN  (IF pays[p].pc = "done" /\ pays[p].status = 200 THEN pays[p].amount ELSE 0)
             + PaidBy(ps \ {p})

\* C20 as claimed: once the payment requests against the company's account
\* are over, in any interleaving, the balance is the initial balance minus
\* the sum of the amounts of the payments that reported success
C20_BalanceMatchesPayments ==
  (accounts # << >> /\ \A p \in PaySlots : pays[p].pc \in {"idle", "done"})
    => balance = InitialBalance - PaidBy(PaySlots)

\* the step answers a request to an administration route
AnswersAdmin == resp' # resp /\ resp'.route \in {"admin/companies", "admin/verify"}

\* C21: a request to an administration route by an authenticated user whose
\* stored role is not "admin", or who has no users row, is answered 403
\* without company data and changes no company's KYC status or data; a
\* request to these routes changes the KYC of a company only when it is the
\* verify request of an administrator, and then only of the company named
C21_AdminOnly ==
  [][AnswersAdmin =>
       LET role == getUser(users, resp'.userId)
       IN  /\ (resp'.status # 401 /\ role # "admin") =>
                 (resp'.status = 403 /\ resp'.body = << >> /\ kyc' = kyc)
           /\ resp'.status = 401 => (resp'.body = << >> /\ kyc' = kyc)
           /\ \A c \in CompanyIds :
                kyc'[c] # kyc[c] =>
                  (role = "admin" /\ resp'.route = "admin/verify" /\ resp'.id = c)]_vars

\* a plain user was refused after an administrator had verified the company
C21_Witness ==
  /\ resp.route = "admin/verify"
  /\ resp.status = 403
  /\ getUser(users, resp.userId) = "user"
  /\ kyc["c1"].verifiedBy = "a1"

\* C22 as claimed: GET /api/auth/user answers a session with the method
\* and id of the strategy the session comes from: "BankID" and the
\* personnummer for a session holding a BankID user only, "Replit" and
\* claims.sub for one holding an OIDC user only, "Development" and the
\* developer user's id for one holding a developer login only
C22_MethodMatchesStrategy ==
  [][(resp' # resp /\ resp'.route = "auth/user" /\ resp'.status = 200) =>
       LET session == sessions[resp'.session]
       IN  /\ (session.user.personnummer # "" /\ ~session.dev.defined) =>
                (resp'.authMethod = "BankID" /\ resp'.userId = session.user.personnummer)
           /\ (session.user.sub # "" /\ ~session.dev.defined) =>
                (resp'.authMethod = "Replit" /\ resp'.userId = session.user.sub)
           /\ (session.dev.defined /\ ~session.user.defined) =>
                (resp'.authMethod = "Development" /\ resp'.userId = session.dev.id)]_vars

\* C23 as claimed: once two toggleFavorite calls on the same watch row, which
\* was not a favorite, have both completed, the row is not a favorite
C23_TwoFlips ==
  (/\ \A p \in Slots : calls[p].kind = "toggle" /\ calls[p].pc = "done"
   /\ calls["r1"].userId = calls["r2"].userId)
    => \A i \in DOMAIN watched :
         watched[i].userId = calls["r1"].userId => ~watched[i].isFavorite

\* C24 as claimed: of two batches that overlap in time (two
\* getMarketDataByExchange requests, or one and the start-up batch), at most
\* one has an updateMarketData call for a given symbol under way
C24_OneBatchPerSymbol ==
  \A p, q \in Procs :
    (/\ p # q
     /\ IsBatch(calls[p]) /\ calls[p].pc = "fetch"
     /\ IsBatch(calls[q]) /\ calls[q].pc = "fetch")
      => CurSym(calls[p]) # CurSym(calls[q])

\* C25 as claimed: a watchlist or account route that lets a request through
\* goes on with a defined user id, and with a different id than it would
\* for any session of a different authenticated user
C25_DistinctUserIds ==
  [][(resp' # resp /\ resp'.route = "market/watchlist" /\ resp'.status = 200) =>
       /\ resp'.userId # ""
       /\ \A s \in SessionIds :
            (/\ isAnyAuthenticated(sessions[s])
             /\ authUserId(AdmittedUser(sessions[s]))
                  # authUserId(AdmittedUser(sessions[resp'.session])))
              => routeUserId(AdmittedUser(sessions[s])) # resp'.userId]_vars

\* C26 as claimed: a POST /api/payments/invoice request that ran alone and
\* was answered with success has created exactly one completed debit
\* transaction of its amount and taken the amount off the balance; one that
\* was answered with an error status has left transactions and balance as
\* they were
C26_PaidOrUntouched ==
  \A p \in PaySlots :
    (pays[p].pc = "done" /\ \A q \in PaySlots \ {p} : pays[q].pc = "idle")
      => IF pays[p].status = 200
         THEN /\ transactions = <<[type |-> "debit", amount |-> pays[p].amount,
                                   status |-> "completed"]>>
              /\ balance = InitialBalance - pays[p].amount
         ELSE /\ transactions = << >>
              /\ balance = InitialBalance

\* C27 as claimed: a demo BankID callback logs a user in only when its state
\* parameter is the state GET /api/auth/bankid issued to and stored in the
\* same session; on a session that was issued no state it is answered 400
C27_StateIssued ==
  [][(resp' # resp /\ resp'.route = "auth/bankid/callback") =>
       LET stored == sessions[resp'.session].bankid_state
       IN  /\ resp'.status = 302 => (stored \in IssuedStates /\ resp'.state = stored)
           /\ stored = "" => resp'.status = 400]_vars

\* C28 as claimed: a successful getAllAccountsForUser(userId) lists every
\* account a successful createEnhancedAccount(userId, ...) created before,
\* and the calls of one user create at most one default "Personal Banking"
\* company for that user
C28_AccountsListed ==
  /\ [][(resp' # resp /\ resp'.route = "accounts/all" /\ resp'.status = 200) =>
          \A i \in DOMAIN accounts :
            accounts[i].createdBy = resp'.userId =>
              \E j \in DOMAIN resp'.body : resp'.body[j].id = accounts[i].id]_vars
  /\ [](\A u \in AccountUserInputs :
          Cardinality({c \in CompanyIds :
             /\ \E i \in DOMAIN companies : companies[i] = c
             /\ kyc[c].name = "Personal Banking"
             /\ kyc[c].createdFor = u}) <= 1)

\* the columns of a market_data row that only the insert writes
InsertOnly(row) ==
  [name |-> row.name, exchange |-> row.exchange, currency |-> row.currency,
   sector |-> row.sector, volume |-> row.volume, marketCap |-> row.marketCap]

\* C29: a refresh of a symbol that has a row leaves the row's name, exchange,
\* currency, sector, volume and market cap as the first insert wrote them,
\* whatever the later profile response holds, and the applied write gives the
\* row the price, change, percent change, previous close, day high, day low
\* and sparkline of the refresh's quote and the time of the write
C29_InsertOnlyKept ==
  [][\A p \in Procs :
       /\ calls[p].pc = "upsert" /\ calls'[p] # calls[p]
       /\ Len(RowsOf(market, CurSym(calls[p]))) > 0
       => LET sym == CurSym(calls[p])
              old == RowsOf(market, sym)[1]
              rows == RowsOf(market', sym)
          IN  /\ Len(rows) = 1
              /\ InsertOnly(rows[1]) = InsertOnly(old)
              /\ market' # market
                   => /\ CarriesQuote(rows[1], calls[p].price)
                      /\ rows[1].sparklineData = SparklineData(Quote(calls[p].price))
                      /\ rows[1].lastUpdated = now]_vars

\* C29 witness: a row first inserted without a profile was refreshed later by
\* a request whose profile response carries a name, an exchange, a currency
\* and a market capitalization, with another quote
C29_Witness ==
  \E i \in 1..Len(market) :
     LET row == market[i]
         c == calls["r1"]
     IN  /\ c.kind = "quote" /\ c.pc = "respond"
         /\ c.symbol = row.symbol /\ c.profile = "ok"
         /\ row.name = FallbackName(row.symbol) /\ row.marketCap = 0
         /\ row.price = Quote(c.price).c /\ c.price = 101
         /\ row.lastUpdated = DELAY_MS

\* C30: the quote route never answers 404: a request whose refresh succeeded
\* finds a row for its symbol when it reads the cache (no step removes a row
\* of market_data), and a request whose refresh failed is answered 500 with
\* no row read, whether or not the symbol has a row
C30_NeverNotFound ==
  /\ [](\A p \in Procs :
          calls[p].kind = "quote"
            => /\ calls[p].status # 404
               /\ calls[p].pc = "respond" => Len(RowsOf(market, calls[p].symbol)) = 1)
  /\ [][/\ \A i \in 1..Len(market) : Len(RowsOf(market', market[i].symbol)) = 1
        /\ \A p \in Procs :
             /\ calls[p].kind = "quote" /\ calls[p].pc \in {"fetch", "upsert"}
             /\ calls'[p].pc = "done"
             => calls'[p].status = 500 /\ calls'[p].result = << >>]_vars

\* C30 witness: of two requests for a symbol, one was answered 200 with the
\* symbol's row and the other, whose refresh failed, 500 with no row read
\* while the row was there
C30_Witness ==
  /\ \A p \in Slots : calls[p].kind = "quote" /\ calls[p].pc = "done"
  /\ calls["r1"].symbol = calls["r2"].symbol
  /\ calls["r1"].status = 200 /\ Len(calls["r1"].result) = 1
  /\ calls["r2"].status = 500 /\ calls["r2"].result = << >>
  /\ Len(RowsOf(market, calls["r2"].symbol)) = 1

====
